---- MODULE Spec2Model ----
(***************************************************************************)
(* CryptoMamba data pipeline: window sampling (CMambaDataset), the window  *)
(* transforms (DataTransform, ClassificationTransform), return             *)
(* discretization (three implementations), the return computation of the   *)
(* BaseModule steps, and bar aggregation / splitting (DataConverter).       *)
(*                                                                         *)
(* Floating point values are modelled as exact rationals plus the IEEE     *)
(* specials a division by zero produces (inf, -inf, nan).                  *)
(***************************************************************************)
EXTENDS Integers, Sequences, FiniteSets, TLC

VARIABLES
    ds,      \* the CMambaDataset object (data, window_size, task_type, y_key, threshold, returns)
    tf,      \* the DataTransform object (keys, task_type, threshold, y_key)
    res,     \* result of the last CMambaDataset operation
    rin,     \* inputs of the return / label functions
    rout,    \* result of the last return / label function applied to rin
    conv,    \* the DataConverter object and its input records
    cres     \* result of the last DataConverter operation

vars == <<ds, tf, res, rin, rout, conv, cres>>

-----------------------------------------------------------------------------
(* Bounds of the model *)

MaxLen == 4        \* longest bar series of a dataset
MaxWindow == 2     \* largest window_size
MaxClose == 1      \* close prices of a dataset's bars range over 0..MaxClose
MaxPrice == 2      \* prices of the return functions range over 0..MaxPrice
MaxCalls == 2      \* number of Timestamp_orig entries the key list may collect
MaxRecords == 3    \* raw records fed to the DataConverter
MaxRaw == 1        \* raw records take their prices from a shape 0..MaxRaw

-----------------------------------------------------------------------------
(* Numbers: rationals n/d (d > 0, reduced) and the IEEE specials *)

Abs(x) == IF x < 0 THEN -x ELSE x

RECURSIVE GCD(_, _)
GCD(a, b) == IF b = 0 THEN a ELSE GCD(b, a % b)

Num(n, d) ==
    LET s == IF d < 0 THEN -1 ELSE 1
        g == GCD(Abs(n), Abs(d))
    IN  [kind |-> "num", n |-> (s * n) \div g, d |-> (s * d) \div g]

IntVal(x) == [kind |-> "num", n |-> x, d |-> 1]
NaN == [kind |-> "nan", n |-> 0, d |-> 1]
PosInf == [kind |-> "inf", n |-> 0, d |-> 1]
NegInf == [kind |-> "ninf", n |-> 0, d |-> 1]
Zero == IntVal(0)

IsNum(a) == a.kind = "num"
IsZero(a) == IsNum(a) /\ a.n = 0

Neg(a) ==
    CASE a.kind = "num" -> [a EXCEPT !.n = -a.n]
      [] a.kind = "inf" -> NegInf
      [] a.kind = "ninf" -> PosInf
      [] OTHER -> NaN

\* a - b, a + b, a * b on finite operands, over the least common denominator
RSub(a, b) ==
    LET g == GCD(a.d, b.d)
    IN  Num(a.n * (b.d \div g) - b.n * (a.d \div g), (a.d \div g) * b.d)

RAdd(a, b) ==
    LET g == GCD(a.d, b.d)
    IN  Num(a.n * (b.d \div g) + b.n * (a.d \div g), (a.d \div g) * b.d)

RMul(a, b) == Num(a.n * b.n, a.d * b.d)

\* a / b with b /= 0, finite operands
RDiv(a, b) ==
    LET g == GCD(a.d, b.d)
    IN  Num(a.n * (b.d \div g), (a.d \div g) * b.n)

\* IEEE division of finite operands: x/0 is +-inf, 0/0 is nan, no error
FDiv(a, b) ==
    IF ~IsZero(b) THEN RDiv(a, b)
    ELSE IF a.n > 0 THEN PosInf
    ELSE IF a.n < 0 THEN NegInf
    ELSE NaN

\* IEEE comparisons: every comparison with nan is false
Lt(a, b) ==
    CASE a.kind = "nan" \/ b.kind = "nan" -> FALSE
      [] a.kind = "inf" -> FALSE
      [] b.kind = "ninf" -> FALSE
      [] a.kind = "ninf" -> TRUE
      [] b.kind = "inf" -> TRUE
      [] OTHER -> a.n * b.d < b.n * a.d

Le(a, b) ==
    CASE a.kind = "nan" \/ b.kind = "nan" -> FALSE
      [] a.kind = b.kind /\ a.kind # "num" -> TRUE
      [] OTHER -> Lt(a, b) \/ (IsNum(a) /\ IsNum(b) /\ a.n * b.d = b.n * a.d)

Gt(a, b) == Lt(b, a)
Ge(a, b) == Le(b, a)

-----------------------------------------------------------------------------
(* Return discretization *)

\* DataTransform, tensor path: zeros_like, then three masked stores in order
DataTransform_labels_tensor(returns, threshold) ==
    LET l0 == 0
        l1 == IF Lt(returns, Neg(threshold)) THEN 0 ELSE l0
        l2 == IF Ge(returns, Neg(threshold)) /\ Le(returns, threshold) THEN 1 ELSE l1
        l3 == IF Gt(returns, threshold) THEN 2 ELSE l2
    IN  l3

\* DataTransform, scalar path: float(returns), then if / elif / else
DataTransform_labels_scalar(returns, threshold) ==
    IF Lt(returns, Neg(threshold)) THEN 0
    ELSE IF Le(returns, threshold) THEN 1
    ELSE 2

DataTransform_create_class_labels(returns, threshold, isTensor) ==
    IF isTensor THEN DataTransform_labels_tensor(returns, threshold)
    ELSE DataTransform_labels_scalar(returns, threshold)

CMambaDataset_labels_tensor(returns, threshold) ==
    LET l0 == 0
        l1 == IF Lt(returns, Neg(threshold)) THEN 0 ELSE l0
        l2 == IF Ge(returns, Neg(threshold)) /\ Le(returns, threshold) THEN 1 ELSE l1
        l3 == IF Gt(returns, threshold) THEN 2 ELSE l2
    IN  l3

\* variant: the upper boundary is exclusive
CMambaDataset_labels_scalar_strict(returns, threshold) ==
    IF Lt(returns, Neg(threshold)) THEN 0
    ELSE IF Lt(returns, threshold) THEN 1
    ELSE 2

CMambaDataset_labels_scalar(returns, threshold) ==
    IF Lt(returns, Neg(threshold)) THEN 0
    ELSE IF Le(returns, threshold) THEN 1
    ELSE 2

CMambaDataset_create_class_labels(returns, threshold, isTensor) ==
    IF isTensor THEN CMambaDataset_labels_tensor(returns, threshold)
    ELSE CMambaDataset_labels_scalar(returns, threshold)

BaseModule_create_class_labels(returns, threshold) ==
    LET l0 == 0
        l1 == IF Lt(returns, Neg(threshold)) THEN 0 ELSE l0
        l2 == IF Ge(returns, Neg(threshold)) /\ Le(returns, threshold) THEN 1 ELSE l1
        l3 == IF Gt(returns, threshold) THEN 2 ELSE l2
    IN  l3

-----------------------------------------------------------------------------
(* Return computation from a current and a previous target value *)

\* DataTransform.__call__: guarded division on 0-dim tensors
DataTransform_returns(current_price, previous_price) ==
    IF ~IsZero(previous_price)
    THEN FDiv(RSub(current_price, previous_price), previous_price)
    ELSE Zero

\* CMambaDataset._compute_returns, one entry: guarded division
CMambaDataset_return_of(current_price, previous_price) ==
    IF ~IsZero(previous_price)
    THEN FDiv(RSub(current_price, previous_price), previous_price)
    ELSE Zero

\* ClassificationTransform.__call__: conditional expression
ClassificationTransform_returns(y, y_old) ==
    IF ~IsZero(y_old) THEN FDiv(RSub(y, y_old), y_old) ELSE Zero

\* variant: the shift is left out
BaseModule_denormalize_unshifted(y, coeffs) ==
    IF coeffs.set THEN RMul(y, coeffs.scale) ELSE y

\* BaseModule.denormalize of one value; coeffs.set is "normalization_coeffs is not None"
BaseModule_denormalize(y, coeffs) ==
    IF coeffs.set THEN RAdd(RMul(y, coeffs.scale), coeffs.shift) ELSE y

\* The returns a BaseModule step (training, validation, test) derives from its batch.
\* batch: [has_returns, returns, has_old, y, y_old]
BaseModule_step_returns(batch, coeffs) ==
    IF batch.has_returns THEN batch.returns
    ELSE IF batch.has_old
         THEN LET y == BaseModule_denormalize(batch.y, coeffs)
                  y_old == BaseModule_denormalize(batch.y_old, coeffs)
              IN  FDiv(RSub(y, y_old), y_old)
         ELSE batch.y

\* classification branch of a step: the returns and the target classes built from them
BaseModule_step(batch, coeffs, threshold) ==
    LET returns == BaseModule_step_returns(batch, coeffs)
    IN  [returns |-> returns,
         target |-> BaseModule_create_class_labels(returns, threshold)]

-----------------------------------------------------------------------------
(* Specification of the return and label functions: rin is the input,        *)
(* each action applies one implementation and records its result in rout.    *)

Idle == [op |-> "idle"]

Prices == 0..MaxPrice
RVals == {Num(n, d) : n \in -MaxPrice..MaxPrice, d \in 1..MaxPrice}
Thresholds == {Num(n, 2) : n \in 0..MaxPrice}
NoCoeffs == [set |-> FALSE, scale |-> IntVal(1), shift |-> Zero]
CoeffVals == {NoCoeffs} \cup
    {[set |-> TRUE, scale |-> IntVal(s), shift |-> IntVal(h)] : s \in 1..MaxPrice, h \in {0, 1}}
BatchKinds == {"returns", "old", "bare"}

RInit ==
    /\ rin \in [r : RVals, t : Thresholds, cur : Prices, prev : Prices,
                batch : BatchKinds, coeffs : CoeffVals]
    /\ rout = Idle
    /\ ds = Idle /\ tf = Idle /\ res = Idle /\ conv = Idle /\ cres = Idle

ROut(op, returns, target) == [op |-> op, returns |-> returns, target |-> target]

LabelsDataTransformTensor ==
    /\ rout' = ROut("DataTransform.tensor", rin.r,
                    DataTransform_create_class_labels(rin.r, rin.t, TRUE))
    /\ UNCHANGED <<ds, tf, res, rin, conv, cres>>

LabelsDataTransformScalar ==
    /\ rout' = ROut("DataTransform.scalar", rin.r,
                    DataTransform_create_class_labels(rin.r, rin.t, FALSE))
    /\ UNCHANGED <<ds, tf, res, rin, conv, cres>>

LabelsDatasetTensor ==
    /\ rout' = ROut("CMambaDataset.tensor", rin.r,
                    CMambaDataset_create_class_labels(rin.r, rin.t, TRUE))
    /\ UNCHANGED <<ds, tf, res, rin, conv, cres>>

LabelsDatasetScalar ==
    /\ rout' = ROut("CMambaDataset.scalar", rin.r,
                    CMambaDataset_create_class_labels(rin.r, rin.t, FALSE))
    /\ UNCHANGED <<ds, tf, res, rin, conv, cres>>

LabelsBaseModule ==
    /\ rout' = ROut("BaseModule.labels", rin.r,
                    BaseModule_create_class_labels(rin.r, rin.t))
    /\ UNCHANGED <<ds, tf, res, rin, conv, cres>>

ReturnsDataTransform ==
    /\ rout' = ROut("DataTransform.returns",
                    DataTransform_returns(IntVal(rin.cur), IntVal(rin.prev)), -1)
    /\ UNCHANGED <<ds, tf, res, rin, conv, cres>>

ReturnsDataset ==
    /\ rout' = ROut("CMambaDataset.returns",
                    CMambaDataset_return_of(IntVal(rin.cur), IntVal(rin.prev)), -1)
    /\ UNCHANGED <<ds, tf, res, rin, conv, cres>>

ReturnsClassificationTransform ==
    /\ rout' = ROut("ClassificationTransform.returns",
                    ClassificationTransform_returns(IntVal(rin.cur), IntVal(rin.prev)), -1)
    /\ UNCHANGED <<ds, tf, res, rin, conv, cres>>

\* the batch a step receives, built from rin
Batch ==
    [has_returns |-> rin.batch = "returns", returns |-> rin.r,
     has_old |-> rin.batch = "old", y |-> IntVal(rin.cur), y_old |-> IntVal(rin.prev)]

StepOut(op) ==
    LET s == BaseModule_step(Batch, rin.coeffs, rin.t)
    IN  ROut(op, s.returns, s.target)

training_step ==
    /\ rout' = StepOut("training_step")
    /\ UNCHANGED <<ds, tf, res, rin, conv, cres>>

validation_step ==
    /\ rout' = StepOut("validation_step")
    /\ UNCHANGED <<ds, tf, res, rin, conv, cres>>

test_step ==
    /\ rout' = StepOut("test_step")
    /\ UNCHANGED <<ds, tf, res, rin, conv, cres>>

RNext ==
    \/ LabelsDataTransformTensor
    \/ LabelsDataTransformScalar
    \/ LabelsDatasetTensor
    \/ LabelsDatasetScalar
    \/ LabelsBaseModule
    \/ ReturnsDataTransform
    \/ ReturnsDataset
    \/ ReturnsClassificationTransform
    \/ training_step
    \/ validation_step
    \/ test_step

SpecReturns == RInit /\ [][RNext]_vars

-----------------------------------------------------------------------------
(* Data frames: a set of column names and a sequence of rows *)

Max(a, b) == IF a > b THEN a ELSE b
Min(a, b) == IF a < b THEN a ELSE b
Range(f) == {f[k] : k \in DOMAIN f}

Columns == {"Timestamp", "Open", "High", "Low", "Close", "Volume"}

Bar(ts, open, close) ==
    [Timestamp |-> ts, Open |-> open, High |-> Max(open, close), Low |-> Min(open, close),
     Close |-> close, Volume |-> open + close, Timestamp_orig |-> ts]

\* a bar series with the given closes: one bar a minute, each opening at the previous close
SeriesOf(closes) ==
    [k \in 1..Len(closes) |->
        Bar(60 * (k - 1), IF k = 1 THEN 1 ELSE closes[k - 1], closes[k])]

CloseSeqs == UNION {[1..n -> 0..MaxClose] : n \in 0..MaxLen}

Frame(cols, rows) == [cols |-> cols, rows |-> rows]

\* Python slice seq[a:b] (negative bounds count from the end, bounds are clipped)
PySlice(seq, a, b) ==
    LET n == Len(seq)
        lo == IF a < 0 THEN Max(a + n, 0) ELSE Min(a, n)
        hi == IF b < 0 THEN Max(b + n, 0) ELSE Min(b, n)
    IN  IF lo < hi THEN SubSeq(seq, lo + 1, hi) ELSE <<>>

\* Python index seq[k]: negative k counts from the end; out of range raises IndexError
PyIndexValid(seq, k) == -Len(seq) <= k /\ k < Len(seq)
PyIndex(seq, k) == IF k < 0 THEN seq[k + Len(seq) + 1] ELSE seq[k + 1]

-----------------------------------------------------------------------------
(* DataTransform *)

VolumeScale == 1000000000

DataTransform__init__(use_volume, task_type, threshold, y_key) ==
    [keys |-> IF use_volume
              THEN <<"Timestamp", "Open", "High", "Low", "Close", "Volume">>
              ELSE <<"Timestamp", "Open", "High", "Low", "Close">>,
     task_type |-> task_type, threshold |-> threshold, y_key |-> y_key]

NoOutput == [op |-> "none"]

\* DataTransform.__call__: the new key list, and the output or the error raised
DataTransform_call(self, window) ==
    LET keys == IF "Timestamp_orig" \in window.cols
                THEN Append(self.keys, "Timestamp_orig")
                ELSE self.keys
        n == Len(window.rows)
        data(key, k) ==
            IF key = "Volume"
            THEN RDiv(IntVal(window.rows[k][key]), IntVal(VolumeScale))
            ELSE IntVal(window.rows[k][key])
        keyset == Range(keys)
        channels == SelectSeq(keys, LAMBDA key : key # "Timestamp_orig")
        features == [c \in 1..Len(channels) |-> [k \in 1..(n - 1) |-> data(channels[c], k)]]
        cur == [key \in keyset |-> data(key, n)]
        old == [key \in keyset |-> data(key, n - 1)]
        returns == DataTransform_returns(cur[self.y_key], old[self.y_key])
    IN  IF \E key \in keyset : key \notin window.cols
        THEN [status |-> "AttributeError", keys |-> keys, out |-> NoOutput]
        ELSE IF n < 2
        THEN [status |-> "IndexError", keys |-> keys, out |-> NoOutput]
        ELSE IF self.task_type # "classification"
        THEN [status |-> "ok", keys |-> keys,
              out |-> [cur |-> cur, old |-> old, features |-> features,
                       has_returns |-> FALSE, returns |-> Zero, target_class |-> -1]]
        ELSE IF self.y_key \notin keyset
        THEN [status |-> "KeyError", keys |-> keys, out |-> NoOutput]
        ELSE [status |-> "ok", keys |-> keys,
              out |-> [cur |-> cur, old |-> old, features |-> features,
                       has_returns |-> TRUE, returns |-> returns,
                       target_class |->
                           DataTransform_create_class_labels(returns, self.threshold, TRUE)]]

-----------------------------------------------------------------------------
(* CMambaDataset *)

\* variant: the size is not clamped at 0
CMambaDataset_len_unclamped(self) == Len(self.data.rows) - self.window_size - 1

CMambaDataset_len(self) == Max(0, Len(self.data.rows) - self.window_size - 1)

\* variant: each return is measured from the first bar of the window
CMambaDataset_compute_returns_from_first(self) ==
    LET prices == [k \in 1..Len(self.data.rows) |-> IntVal(self.data.rows[k][self.y_key])]
    IN  [j \in 1..CMambaDataset_len(self) |->
            CMambaDataset_return_of(PyIndex(prices, (j - 1) + self.window_size),
                                    PyIndex(prices, j - 1))]

\* _compute_returns: one return per index of range(len(self))
CMambaDataset_compute_returns(self) ==
    LET prices == [k \in 1..Len(self.data.rows) |-> IntVal(self.data.rows[k][self.y_key])]
    IN  [j \in 1..CMambaDataset_len(self) |->
            CMambaDataset_return_of(PyIndex(prices, (j - 1) + self.window_size),
                                    PyIndex(prices, (j - 1) + self.window_size - 1))]

CMambaDataset__init__(data, window_size, task_type, y_key, threshold) ==
    LET self == [data |-> data, window_size |-> window_size, task_type |-> task_type,
                 y_key |-> y_key, threshold |-> threshold, returns |-> <<>>]
    IN  IF task_type = "classification"
        THEN [self EXCEPT !.returns = CMambaDataset_compute_returns(self)]
        ELSE self

\* variant: the window stops one bar early
CMambaDataset_window_short(self, i) ==
    Frame(self.data.cols, PySlice(self.data.rows, i, i + self.window_size))

\* the window __getitem__ cuts: data.iloc[i : i + window_size + 1]
CMambaDataset_window(self, i) ==
    Frame(self.data.cols, PySlice(self.data.rows, i, i + self.window_size + 1))

\* __getitem__: status, the transform's new key list, the window and the sample
CMambaDataset_getitem(self, transform, i) ==
    LET sample == CMambaDataset_window(self, i)
        t == DataTransform_call(transform, sample)
        returns == IF t.out.has_returns THEN t.out.returns ELSE PyIndex(self.returns, i)
    IN  IF t.status # "ok"
        THEN [status |-> t.status, keys |-> t.keys, window |-> sample, sample |-> NoOutput]
        ELSE IF self.task_type # "classification"
        THEN [status |-> "ok", keys |-> t.keys, window |-> sample, sample |-> t.out]
        ELSE IF ~t.out.has_returns /\ ~PyIndexValid(self.returns, i)
        THEN [status |-> "IndexError", keys |-> t.keys, window |-> sample, sample |-> NoOutput]
        ELSE [status |-> "ok", keys |-> t.keys, window |-> sample,
              sample |-> [t.out EXCEPT
                  !.has_returns = TRUE,
                  !.returns = returns,
                  !.target_class =
                      CMambaDataset_create_class_labels(returns, self.threshold,
                                                        t.out.has_returns)]]

-----------------------------------------------------------------------------
(* Specification of the dataset: a constructed CMambaDataset over a          *)
(* DataTransform; the operations are __len__ and __getitem__.                *)

TaskTypes == {"regression", "classification"}
TargetKeys == {"Open", "Close"}
DatasetThresholds == {Zero, IntVal(1)}
Indices == -MaxLen..(MaxLen - 1)

\* Constructor arguments. In regression mode y_key and threshold are never read, so they
\* keep one value there; the training script constructs every DataTransform without
\* y_key (its default is 'Close') and without use_volume unless asked.
DatasetArgs ==
    {[task_type |-> "regression", y_key |-> "Close", threshold |-> IntVal(1)]} \cup
    [task_type : {"classification"}, y_key : TargetKeys, threshold : DatasetThresholds]

TransformArgs ==
    {[task_type |-> "regression", y_key |-> "Close", threshold |-> IntVal(1)]} \cup
    [task_type : {"classification"}, y_key : {"Close"}, threshold : DatasetThresholds]

Init ==
    /\ \E closes \in CloseSeqs, w \in 0..MaxWindow, a \in DatasetArgs :
          ds = CMambaDataset__init__(Frame(Columns, SeriesOf(closes)), w,
                                     a.task_type, a.y_key, a.threshold)
    /\ \E a \in TransformArgs :
          tf = DataTransform__init__(FALSE, a.task_type, a.threshold, a.y_key)
    /\ res = Idle
    /\ rin = Idle /\ rout = Idle /\ conv = Idle /\ cres = Idle

LenCall ==
    /\ res' = [op |-> "len", value |-> CMambaDataset_len(ds)]
    /\ UNCHANGED <<ds, tf, rin, rout, conv, cres>>

GetItem ==
    \E i \in Indices :
        LET g == CMambaDataset_getitem(ds, tf, i)
        IN  /\ res' = [op |-> "getitem", i |-> i, status |-> g.status,
                       window |-> g.window, sample |-> g.sample]
            /\ tf' = [tf EXCEPT !.keys = g.keys]
            /\ UNCHANGED <<ds, rin, rout, conv, cres>>

Next == LenCall \/ GetItem

Spec == Init /\ [][Next]_vars

-----------------------------------------------------------------------------
(* Specification of the transform alone: one DataTransform object called on  *)
(* a sequence of windows, with and without a 'Timestamp_orig' column.        *)

BaseKeys(use_volume) == DataTransform__init__(use_volume, "regression", Zero, "Close").keys

\* how many 'Timestamp_orig' entries the key list holds
OrigCount(keys) == Len(SelectSeq(keys, LAMBDA key : key = "Timestamp_orig"))

TransformWindows ==
    {Frame(cols, SeriesOf(closes)) :
        cols \in {Columns, Columns \cup {"Timestamp_orig"}},
        closes \in UNION {[1..n -> 0..MaxClose] : n \in 0..(MaxWindow + 1)}}

TInit ==
    /\ \E use_volume \in BOOLEAN, a \in TransformArgs :
          tf = DataTransform__init__(use_volume, a.task_type, a.threshold, a.y_key)
    /\ res = Idle
    /\ ds = Idle /\ rin = Idle /\ rout = Idle /\ conv = Idle /\ cres = Idle

TransformCall ==
    \E window \in TransformWindows :
        LET t == DataTransform_call(tf, window)
        IN  /\ OrigCount(t.keys) <= MaxCalls
            /\ res' = [op |-> "call", window |-> window, status |-> t.status, out |-> t.out]
            /\ tf' = [tf EXCEPT !.keys = t.keys]
            /\ UNCHANGED <<ds, rin, rout, conv, cres>>

TNext == TransformCall

SpecTransform == TInit /\ [][TNext]_vars

-----------------------------------------------------------------------------
(* DataConverter: aggregation of raw records into bars, and splitting *)

DaySeconds == 86400
TailSeconds == 3600

Some(x) == [some |-> TRUE, v |-> x]
None == [some |-> FALSE, v |-> 0]

\* generate_timestamp of a date (dates are day numbers): midnight of that day
generate_timestamp(date) == date * DaySeconds

\* convert_timestamp(ts).strftime('%Y-%d-%m'): the day the timestamp falls in
DateOf(timestamp) == timestamp \div DaySeconds

DataConverter__init__(config) ==
    [config |-> config,
     jumps |-> config.jumps * 60,
     end_date |-> config.end_date,
     start_date |-> config.start_date,
     folder_name |-> <<config.start_date, config.end_date, (config.jumps * 60) \div 60>>]

SeqMin(f) == CHOOSE x \in Range(f) : \A y \in Range(f) : x <= y
SeqMax(f) == CHOOSE x \in Range(f) : \A y \in Range(f) : x >= y

\* rows of data with lo <= Timestamp < hi, in their order
Between(rows, lo, hi) == SelectSeq(rows, LAMBDA r : r.Timestamp >= lo /\ r.Timestamp < hi)

\* load_data: resolves unset dates from the data (and stores them), cuts the data to
\* [start, stop); min / max of an empty column raises ValueError
DataConverter_load_data(self, csv) ==
    LET stamps == [k \in 1..Len(csv) |-> csv[k].Timestamp]
        start_date == IF self.start_date.some THEN self.start_date
                      ELSE Some(DateOf(SeqMin(stamps)))
        end_date == IF self.end_date.some THEN self.end_date
                    ELSE Some(DateOf(SeqMax(stamps) + 24 * 60 * 60))
        start == generate_timestamp(start_date.v)
        stop == generate_timestamp(end_date.v)
    IN  IF Len(csv) = 0 /\ (~self.start_date.some \/ ~self.end_date.some)
        THEN [status |-> "ValueError", self |-> self, df |-> <<>>, start |-> 0, stop |-> 0]
        ELSE [status |-> "ok",
              self |-> [self EXCEPT !.start_date = start_date, !.end_date = end_date],
              df |-> Between(csv, start, stop), start |-> start, stop |-> stop]

RECURSIVE MergeLoop(_, _, _)
\* the loop of merge_data over the rows k..Len(rows) of the bucket
MergeLoop(rows, k, acc) ==
    IF k > Len(rows) THEN acc
    ELSE MergeLoop(rows, k + 1,
            [high |-> Max(acc.high, rows[k].High),
             low |-> Min(acc.low, rows[k].Low),
             open |-> acc.open,
             close |-> rows[k].Close,
             vol |-> acc.vol + rows[k].Volume,
             count |-> acc.count + 1])

\* variant: the first row's volume is taken at the start and added again by the loop
DataConverter_merge_data_twice(data, start, jump) ==
    LET tmp == Between(data, start, start + jump)
    IN  IF Len(tmp) = 0 THEN [none |-> TRUE, high |-> 0, low |-> 0, open |-> 0, close |-> 0, vol |-> 0]
        ELSE LET acc == MergeLoop(tmp, 1,
                            [high |-> tmp[1].High, low |-> tmp[1].Low, open |-> tmp[1].Open,
                             close |-> tmp[1].Close, vol |-> tmp[1].Volume, count |-> 1])
             IN  [none |-> FALSE, high |-> acc.high, low |-> acc.low, open |-> acc.open,
                  close |-> acc.close, vol |-> acc.vol]

\* variant: low is the low of the last row of the bucket, not the minimum
DataConverter_merge_data_last_low(data, start, jump) ==
    LET tmp == Between(data, start, start + jump)
    IN  IF Len(tmp) = 0 THEN [none |-> TRUE, high |-> 0, low |-> 0, open |-> 0, close |-> 0, vol |-> 0]
        ELSE LET acc == MergeLoop(tmp, 1,
                            [high |-> tmp[1].High, low |-> tmp[1].Low, open |-> tmp[1].Open,
                             close |-> tmp[1].Close, vol |-> 0, count |-> 1])
             IN  [none |-> FALSE, high |-> acc.high, low |-> tmp[Len(tmp)].Low, open |-> acc.open,
                  close |-> acc.close, vol |-> acc.vol]

\* merge_data: the records with start <= Timestamp < start + jump, merged into one bar
DataConverter_merge_data(data, start, jump) ==
    LET tmp == Between(data, start, start + jump)
    IN  IF Len(tmp) = 0 THEN [none |-> TRUE, high |-> 0, low |-> 0, open |-> 0, close |-> 0, vol |-> 0]
        ELSE LET acc == MergeLoop(tmp, 1,
                            [high |-> tmp[1].High, low |-> tmp[1].Low, open |-> tmp[1].Open,
                             close |-> tmp[1].Close, vol |-> 0, count |-> 1])
             IN  [none |-> FALSE, high |-> acc.high, low |-> acc.low, open |-> acc.open,
                  close |-> acc.close, vol |-> acc.vol]

\* len(range(a, b, step)) of Python, step > 0
RangeLen(a, b, step) == IF b > a THEN (b - a + step - 1) \div step ELSE 0

\* the loop of process_data over i in range(start, start + n * jumps, jumps): buckets
\* whose merge is None are skipped, every other one appends its bar
ProcessLoop(data, start, jumps, n) ==
    LET starts == [k \in 1..n |-> start + (k - 1) * jumps]
        kept == SelectSeq(starts, LAMBDA i : ~DataConverter_merge_data(data, i, jumps).none)
    IN  [k \in 1..Len(kept) |->
            LET m == DataConverter_merge_data(data, kept[k], jumps)
            IN  [Timestamp |-> kept[k], High |-> m.high, Low |-> m.low, Open |-> m.open,
                 Close |-> m.close, Volume |-> m.vol]]

\* process_data: the loaded data, bucket by bucket
DataConverter_process_data(self, csv) ==
    LET l == DataConverter_load_data(self, csv)
    IN  IF l.status # "ok"
        THEN [status |-> l.status, self |-> l.self, df |-> <<>>, start |-> 0, stop |-> 0]
        ELSE [status |-> "ok", self |-> l.self,
              df |-> ProcessLoop(l.df, l.start, self.jumps,
                                 RangeLen(l.start, l.stop - TailSeconds, self.jumps)),
              start |-> l.start, stop |-> l.stop]

\* int(ratio * total)
IntOfProduct(ratio, total) == (ratio.n * total) \div ratio.d

RECURSIVE Sorted(_)
\* sorted(list) of distinct integers
Sorted(f) ==
    IF Len(f) = 0 THEN <<>>
    ELSE LET m == SeqMin(f)
         IN  <<m>> \o Sorted(SelectSeq(f, LAMBDA x : x # m))

\* data.iloc[idx] for a list of 0-based positions
ILoc(data, idx) == [k \in 1..Len(idx) |-> data[idx[k] + 1]]

NoSplit == [train |-> <<>>, val |-> <<>>, test |-> <<>>]

\* variant: the interval branch keeps the bars up to and including stop
DataConverter_split_inclusive(self, data, shuffled) ==
    IF self.config.train_ratio.some
    THEN [status |-> "AttributeError", branch |-> "ratio", out |-> NoSplit]
    ELSE IF ~self.config.intervals.some
    THEN [status |-> "TypeError", branch |-> "interval", out |-> NoSplit]
    ELSE LET part(key) ==
                 Between(data, generate_timestamp(self.config.intervals.v[key][1]),
                         generate_timestamp(self.config.intervals.v[key][2]) + 1)
         IN  [status |-> "ok", branch |-> "interval",
              out |-> [train |-> part("train"), val |-> part("val"), test |-> part("test")]]

\* split: shuffled is the list random.shuffle leaves; an attribute __init__ never set
\* raises AttributeError, an interval the configuration lacks raises TypeError; branch is
\* the arm of the if statement that ran
DataConverter_split(self, data, shuffled) ==
    IF self.config.train_ratio.some
    THEN IF "train_ratio" \notin DOMAIN self \/ "test_ratio" \notin DOMAIN self
         THEN [status |-> "AttributeError", branch |-> "ratio", out |-> NoSplit]
         ELSE LET total == Len(data)
                  n_train == IntOfProduct(self.train_ratio, total)
                  n_test == IntOfProduct(self.test_ratio, total)
                  train == Sorted(PySlice(shuffled, 0, n_train))
                  val == Sorted(PySlice(shuffled, n_train, -n_test))
                  test == Sorted(PySlice(shuffled, -n_test, total))
              IN  [status |-> "ok", branch |-> "ratio",
                   out |-> [train |-> ILoc(data, train), val |-> ILoc(data, val),
                            test |-> ILoc(data, test)]]
    ELSE IF ~self.config.intervals.some
    THEN [status |-> "TypeError", branch |-> "interval", out |-> NoSplit]
    ELSE LET part(key) ==
                 Between(data, generate_timestamp(self.config.intervals.v[key][1]),
                         generate_timestamp(self.config.intervals.v[key][2]))
         IN  [status |-> "ok", branch |-> "interval",
              out |-> [train |-> part("train"), val |-> part("val"), test |-> part("test")]]

\* DataFrame.to_csv: one line per row, the row's index label first
to_csv(frame) == [k \in 1..Len(frame) |-> <<k - 1, frame[k]>>]

\* pd.read_csv(path, index_col=0): the rows, the first field of each line being its index
read_csv(file) == [k \in 1..Len(file) |-> file[k][2]]

\* the file system under root: the folders that exist, each with its four files
NoFiles == [name \in {} |-> 0]

\* (start_date, end_date, bucket minutes) as load_data resolves them for this converter
ResolvedTriple(self, csv) ==
    LET l == DataConverter_load_data(self, csv)
    IN  IF l.status = "ok"
        THEN Some(<<l.self.start_date.v, l.self.end_date.v, self.jumps \div 60>>)
        ELSE None

\* get_data after a cache miss, lines 238-245: r is what split returned; an error of
\* split leaves the folders as they are, otherwise the splits and the configuration are
\* written under file_path
DataConverter_get_data_save(self, fs, log, access, p, r) ==
    IF r.status # "ok"
    THEN [status |-> r.status, self |-> p.self, fs |-> fs, log |-> log, out |-> NoSplit]
    ELSE [status |-> "ok", self |-> p.self,
          fs |-> [f \in DOMAIN fs \cup {self.folder_name} |->
                    IF f = self.folder_name
                    THEN [train |-> to_csv(r.out.train), val |-> to_csv(r.out.val),
                          test |-> to_csv(r.out.test), config |-> self.config]
                    ELSE fs[f]],
          log |-> log \cup access,
          out |-> r.out]

\* get_data after a cache miss, lines 234-236: p is what process_data returned
DataConverter_get_data_split(self, fs, log, access, p, shuffled) ==
    IF p.status # "ok"
    THEN [status |-> p.status, self |-> p.self, fs |-> fs, log |-> log, out |-> NoSplit]
    ELSE DataConverter_get_data_save(self, fs, log, access, p,
                                     DataConverter_split(p.self, p.df, shuffled))

\* the (folder, resolved triple) pair of an access of this converter to its folder
Access(self, triple) ==
    IF triple.some THEN {[folder |-> self.folder_name, triple |-> triple.v]} ELSE {}

\* variant: the data is processed, split and written on every call
DataConverter_get_data_uncached(self, csv, fs, log, shuffled) ==
    DataConverter_get_data_split(self, fs, log, Access(self, ResolvedTriple(self, csv)),
                                 DataConverter_process_data(self, csv), shuffled)

\* get_data: the cached splits when train.csv exists under file_path; otherwise the data
\* is processed and split, and the splits and the configuration are written there.
\* log is the set of (folder, resolved triple) pairs of the reads and writes so far.
DataConverter_get_data(self, csv, fs, log, shuffled) ==
    IF self.folder_name \in DOMAIN fs
    THEN [status |-> "ok", self |-> self, fs |-> fs,
          log |-> log \cup Access(self, ResolvedTriple(self, csv)),
          out |-> [train |-> read_csv(fs[self.folder_name].train),
                   val |-> read_csv(fs[self.folder_name].val),
                   test |-> read_csv(fs[self.folder_name].test)]]
    ELSE DataConverter_get_data_split(self, fs, log, Access(self, ResolvedTriple(self, csv)),
                                      DataConverter_process_data(self, csv), shuffled)

FactorColumns == {"Open", "High", "Low", "Close", "Volume"}

\* float(train[col].min()) and float(train[col].max()): nan for a column without rows
ColMin(rows, col) ==
    IF Len(rows) = 0 THEN NaN ELSE IntVal(SeqMin([k \in 1..Len(rows) |-> rows[k][col]]))
ColMax(rows, col) ==
    IF Len(rows) = 0 THEN NaN ELSE IntVal(SeqMax([k \in 1..Len(rows) |-> rows[k][col]]))

NoFactors == [col \in {} |-> 0]

\* variant: the factors are taken over the rows of all three splits
DataConverter_factors_of_all(train, val, test) ==
    [col \in FactorColumns |->
        [min |-> ColMin(train \o val \o test, col), max |-> ColMax(train \o val \o test, col)]]

\* the dictionary get_normalization_factors builds from the splits get_data returned
DataConverter_factors_of(train, val, test) ==
    [col \in FactorColumns |-> [min |-> ColMin(train, col), max |-> ColMax(train, col)]]

\* get_normalization_factors, lines 366-374: g is what get_data returned
DataConverter_factors_result(g) ==
    [status |-> g.status, self |-> g.self, fs |-> g.fs, log |-> g.log, out |-> g.out,
     factors |-> IF g.status = "ok"
                 THEN DataConverter_factors_of(g.out.train, g.out.val, g.out.test)
                 ELSE NoFactors]

\* get_normalization_factors: get_data, then min and max of each column
DataConverter_get_normalization_factors(self, csv, fs, log, shuffled) ==
    DataConverter_factors_result(DataConverter_get_data(self, csv, fs, log, shuffled))

-----------------------------------------------------------------------------
(* Specification of the converter: a constructed DataConverter and the CSV   *)
(* file at its data_path; the operations are merge_data on a bucket,         *)
(* process_data, and split of the processed bars.                            *)

\* raw record of shape v at a timestamp: low <= open <= close <= high, volume > 0
RawRecord(ts, v) ==
    [Timestamp |-> ts, Low |-> MaxRaw + 1 - v, Open |-> MaxRaw + 1 - v,
     Close |-> MaxRaw + 2 - v, High |-> MaxRaw + 2 + v, Volume |-> v + 1]

\* 00:00, 00:15, 23:30 of day 0 and 00:00 of day 1
RawStamps == {0, 900, DaySeconds - 1800, DaySeconds}
RawRecords == {RawRecord(ts, v) : ts \in RawStamps, v \in 0..MaxRaw}

\* CSV files: up to MaxRecords records in ascending time order
CsvFiles ==
    UNION {{f \in [1..n -> RawRecords] :
               \A k \in 1..(n - 1) : f[k].Timestamp <= f[k + 1].Timestamp} : n \in 0..MaxRecords}

Half == Num(1, 2)
Quarter == Num(1, 4)

Intervals == [train |-> <<0, 1>>, val |-> <<1, 2>>, test |-> <<2, 3>>]

\* intervals that share day 1
OverlappingIntervals == [train |-> <<0, 2>>, val |-> <<1, 3>>, test |-> <<2, 3>>]

\* configurations: bucket widths of 30 minutes and of one day; a ratio split over fixed
\* dates, an interval split over dates resolved from the data, both kinds of keys at once,
\* no split strategy
Configs ==
    [jumps : {30, 1440}, start_date : {Some(0)}, end_date : {Some(1)},
     train_ratio : {Some(Half)}, test_ratio : {Some(Quarter)}, intervals : {None}]
    \cup
    [jumps : {30, 1440}, start_date : {None}, end_date : {None},
     train_ratio : {None}, test_ratio : {None},
     intervals : {Some(Intervals), Some(OverlappingIntervals)}]
    \cup
    [jumps : {1440}, start_date : {None}, end_date : {None},
     train_ratio : {Some(Half)}, test_ratio : {Some(Quarter)}, intervals : {Some(Intervals)}]
    \cup
    [jumps : {30, 1440}, start_date : {Some(0)}, end_date : {Some(1)},
     train_ratio : {None}, test_ratio : {None}, intervals : {None}]

CInit ==
    /\ \E config \in Configs, csv \in CsvFiles :
          conv = [self |-> DataConverter__init__(config), csv |-> csv]
    /\ cres = Idle
    /\ ds = Idle /\ tf = Idle /\ res = Idle /\ rin = Idle /\ rout = Idle

MergeData ==
    \E start \in RawStamps :
        /\ cres' = [op |-> "merge", start |-> start, jump |-> conv.self.jumps,
                    out |-> DataConverter_merge_data(conv.csv, start, conv.self.jumps)]
        /\ UNCHANGED <<ds, tf, res, rin, rout, conv>>

ProcessData ==
    LET p == DataConverter_process_data(conv.self, conv.csv)
    IN  /\ cres' = [op |-> "process", status |-> p.status, df |-> p.df,
                    start |-> p.start, stop |-> p.stop]
        /\ conv' = [conv EXCEPT !.self = p.self]
        /\ UNCHANGED <<ds, tf, res, rin, rout>>

Shuffles(n) == {f \in [1..n -> 0..(n - 1)] : \A a, b \in 1..n : a # b => f[a] # f[b]}

\* get_data lines 234-236: split receives the frame process_data returned
Split ==
    /\ cres.op = "process"
    /\ cres.status = "ok"
    /\ \E shuffled \in Shuffles(Len(cres.df)) :
          LET r == DataConverter_split(conv.self, cres.df, shuffled)
          IN  cres' = [op |-> "split", status |-> r.status, branch |-> r.branch,
                      data |-> cres.df, out |-> r.out]
    /\ UNCHANGED <<ds, tf, res, rin, rout, conv>>

CNext == MergeData \/ ProcessData \/ Split

SpecConverter == CInit /\ [][CNext]_vars

-----------------------------------------------------------------------------
(* Specifications of the split cache. A run is one constructed DataConverter *)
(* with its configuration and input file; the folders under root outlive the *)
(* run. SpecFactors is a single run on an empty root; SpecCache lets a new   *)
(* run start on the folders the earlier runs left.                           *)

MaxRuns == 2

\* configurations that can produce splits, and one without a split strategy
FactorConfigs ==
    [jumps : {30, 1440}, start_date : {None}, end_date : {None},
     train_ratio : {None}, test_ratio : {None},
     intervals : {Some(Intervals), Some(OverlappingIntervals)}]
    \cup
    [jumps : {1440}, start_date : {Some(0)}, end_date : {Some(1)},
     train_ratio : {None}, test_ratio : {None}, intervals : {Some(Intervals), None}]

FInit ==
    /\ \E config \in FactorConfigs, csv \in CsvFiles :
          conv = [self |-> DataConverter__init__(config), csv |-> csv,
                  fs |-> NoFiles, log |-> {}, run |-> 1]
    /\ cres = Idle
    /\ ds = Idle /\ tf = Idle /\ res = Idle /\ rin = Idle /\ rout = Idle

\* the state after get_data returned g
Returned(g) ==
    /\ cres' = [op |-> "get_data", status |-> g.status, out |-> g.out, fs_before |-> conv.fs]
    /\ conv' = [conv EXCEPT !.self = g.self, !.fs = g.fs, !.log = g.log]
    /\ UNCHANGED <<ds, tf, res, rin, rout>>

GetData ==
    \E shuffled \in Shuffles(Len(DataConverter_process_data(conv.self, conv.csv).df)) :
        Returned(DataConverter_get_data(conv.self, conv.csv, conv.fs, conv.log, shuffled))

\* the state after get_normalization_factors returned g
ReturnedFactors(g) ==
    /\ cres' = [op |-> "factors", status |-> g.status, out |-> g.out,
                fs_before |-> conv.fs, factors |-> g.factors]
    /\ conv' = [conv EXCEPT !.self = g.self, !.fs = g.fs, !.log = g.log]
    /\ UNCHANGED <<ds, tf, res, rin, rout>>

GetNormalizationFactors ==
    \E shuffled \in Shuffles(Len(DataConverter_process_data(conv.self, conv.csv).df)) :
        ReturnedFactors(DataConverter_get_normalization_factors(conv.self, conv.csv, conv.fs,
                                                                conv.log, shuffled))

FNext == GetData \/ GetNormalizationFactors

SpecFactors == FInit /\ [][FNext]_vars

\* input files of the cache runs: at most one record
CacheFiles == {f \in CsvFiles : Len(f) <= 1}

\* configurations of the cache runs: dates given or left to the data, an interval split
\* or no split strategy
CacheConfigs ==
    [jumps : {30, 1440}, start_date : {None}, end_date : {None},
     train_ratio : {None}, test_ratio : {None}, intervals : {Some(Intervals)}]
    \cup
    [jumps : {1440}, start_date : {Some(0), None}, end_date : {Some(1), None},
     train_ratio : {None}, test_ratio : {None}, intervals : {Some(Intervals), None}]

KInit ==
    /\ \E config \in CacheConfigs, csv \in CacheFiles :
          conv = [self |-> DataConverter__init__(config), csv |-> csv,
                  fs |-> NoFiles, log |-> {}, run |-> 1]
    /\ cres = Idle
    /\ ds = Idle /\ tf = Idle /\ res = Idle /\ rin = Idle /\ rout = Idle

\* a later run: another DataConverter is constructed, the folders stay
NewRun ==
    /\ conv.run < MaxRuns
    /\ \E config \in CacheConfigs, csv \in CacheFiles :
          conv' = [self |-> DataConverter__init__(config), csv |-> csv,
                   fs |-> conv.fs, log |-> conv.log, run |-> conv.run + 1]
    /\ cres' = Idle
    /\ UNCHANGED <<ds, tf, res, rin, rout>>

KNext == GetData \/ GetNormalizationFactors \/ NewRun

SpecCache == KInit /\ [][KNext]_vars

-----------------------------------------------------------------------------
(* Specification of concurrent get_data calls: the processes a distributed    *)
(* training run starts each construct a DataConverter of the same            *)
(* configuration and input file and call get_data on one cache folder, which *)
(* is empty at the start. Each statement of get_data that reads or writes    *)
(* the folder is one step; conv holds the folder, cres the position and the  *)
(* local values of each process.                                             *)

Procs == {1, 2}

NoFolder == [dir |-> FALSE, train |-> None, val |-> None, test |-> None, config |-> None]

\* a process entering get_data
Entering(self) ==
    [pc |-> "isfile", status |-> "running", self |-> self, df |-> <<>>,
     train |-> <<>>, val |-> <<>>, test |-> <<>>]

PInit ==
    /\ \E config \in CacheConfigs, csv \in CacheFiles :
          /\ conv = [self |-> DataConverter__init__(config), csv |-> csv, folder |-> NoFolder]
          /\ cres = [p \in Procs |-> Entering(DataConverter__init__(config))]
    /\ ds = Idle /\ tf = Idle /\ res = Idle /\ rin = Idle /\ rout = Idle

\* process p moves to pc, or ends with an error
Goto(p, pc) == cres' = [cres EXCEPT ![p].pc = pc]
Raise(p, error) == cres' = [cres EXCEPT ![p].pc = "failed", ![p].status = error]

\* line 227: os.path.isfile of train.csv
IsFile(p) ==
    /\ cres[p].pc = "isfile"
    /\ IF conv.folder.train.some THEN Goto(p, "read_train") ELSE Goto(p, "process_data")
    /\ UNCHANGED <<conv, ds, tf, res, rin, rout>>

\* pd.read_csv of one split file: FileNotFoundError when the file is not there
ReadSplit(p, name, next) ==
    IF conv.folder[name].some
    THEN cres' = [cres EXCEPT ![p].pc = next, ![p][name] = read_csv(conv.folder[name].v),
                              ![p].status = IF next = "done" THEN "ok" ELSE @]
    ELSE Raise(p, "FileNotFoundError")

\* line 228
ReadTrain(p) ==
    /\ cres[p].pc = "read_train"
    /\ ReadSplit(p, "train", "read_val")
    /\ UNCHANGED <<conv, ds, tf, res, rin, rout>>

\* line 229
ReadVal(p) ==
    /\ cres[p].pc = "read_val"
    /\ ReadSplit(p, "val", "read_test")
    /\ UNCHANGED <<conv, ds, tf, res, rin, rout>>

\* lines 230-231
ReadTest(p) ==
    /\ cres[p].pc = "read_test"
    /\ ReadSplit(p, "test", "done")
    /\ UNCHANGED <<conv, ds, tf, res, rin, rout>>

\* the state of p after process_data returned r
Processed(p, r) ==
    IF r.status # "ok"
    THEN Raise(p, r.status)
    ELSE cres' = [cres EXCEPT ![p].pc = "split", ![p].self = r.self, ![p].df = r.df]

\* line 234
ProcessDataOf(p) ==
    /\ cres[p].pc = "process_data"
    /\ Processed(p, DataConverter_process_data(cres[p].self, conv.csv))
    /\ UNCHANGED <<conv, ds, tf, res, rin, rout>>

\* the state of p after split returned r
SplitInto(p, r) ==
    IF r.status # "ok"
    THEN Raise(p, r.status)
    ELSE cres' = [cres EXCEPT ![p].pc = "isdir", ![p].train = r.out.train,
                              ![p].val = r.out.val, ![p].test = r.out.test]

\* line 236
SplitOf(p) ==
    /\ cres[p].pc = "split"
    /\ \E shuffled \in Shuffles(Len(cres[p].df)) :
          SplitInto(p, DataConverter_split(cres[p].self, cres[p].df, shuffled))
    /\ UNCHANGED <<conv, ds, tf, res, rin, rout>>

\* line 238: os.path.isdir of file_path
IsDir(p) ==
    /\ cres[p].pc = "isdir"
    /\ IF conv.folder.dir THEN Goto(p, "to_csv_train") ELSE Goto(p, "mkdir")
    /\ UNCHANGED <<conv, ds, tf, res, rin, rout>>

\* line 239: os.mkdir raises FileExistsError on a directory that exists
MkDir(p) ==
    /\ cres[p].pc = "mkdir"
    /\ IF conv.folder.dir
       THEN Raise(p, "FileExistsError") /\ UNCHANGED conv
       ELSE Goto(p, "to_csv_train") /\ conv' = [conv EXCEPT !.folder.dir = TRUE]
    /\ UNCHANGED <<ds, tf, res, rin, rout>>

\* to_csv of one split of p into the folder
WriteSplit(p, name, next) ==
    /\ conv' = [conv EXCEPT !.folder[name] = Some(to_csv(cres[p][name]))]
    /\ Goto(p, next)

\* line 241
ToCsvTrain(p) ==
    /\ cres[p].pc = "to_csv_train"
    /\ WriteSplit(p, "train", "to_csv_val")
    /\ UNCHANGED <<ds, tf, res, rin, rout>>

\* line 242
ToCsvVal(p) ==
    /\ cres[p].pc = "to_csv_val"
    /\ WriteSplit(p, "val", "to_csv_test")
    /\ UNCHANGED <<ds, tf, res, rin, rout>>

\* line 243
ToCsvTest(p) ==
    /\ cres[p].pc = "to_csv_test"
    /\ WriteSplit(p, "test", "save_yaml")
    /\ UNCHANGED <<ds, tf, res, rin, rout>>

\* lines 244-245: the configuration is saved and the splits are returned
SaveYaml(p) ==
    /\ cres[p].pc = "save_yaml"
    /\ conv' = [conv EXCEPT !.folder.config = Some(conv.self.config)]
    /\ cres' = [cres EXCEPT ![p].pc = "done", ![p].status = "ok"]
    /\ UNCHANGED <<ds, tf, res, rin, rout>>

PNext ==
    \E p \in Procs :
        \/ IsFile(p) \/ ReadTrain(p) \/ ReadVal(p) \/ ReadTest(p)
        \/ ProcessDataOf(p) \/ SplitOf(p) \/ IsDir(p) \/ MkDir(p)
        \/ ToCsvTrain(p) \/ ToCsvVal(p) \/ ToCsvTest(p) \/ SaveYaml(p)

SpecConcurrent == PInit /\ [][PNext]_vars

-----------------------------------------------------------------------------
(* ClassificationTransform, and the normalization coefficients of BaseModule *)

ClassificationTransform__init__(factors, y_key, feature_keys, threshold) ==
    [factors |-> factors, y_key |-> y_key, feature_keys |-> feature_keys,
     threshold |-> threshold]

\* self.factors.get(key, {}).get(field, default)
FactorGet(factors, key, field, default) ==
    IF key \in DOMAIN factors THEN factors[key][field] ELSE default

\* (values - min_val) / (max_val - min_val) when max_val > min_val, else the values
MinMaxScale(values, min_val, max_val) ==
    IF Gt(max_val, min_val)
    THEN [k \in 1..Len(values) |-> RDiv(RSub(values[k], min_val), RSub(max_val, min_val))]
    ELSE values

\* lines 148-158: the values of one feature column over the rows before the last; a
\* column without supplied factor falls back to min(values), max(values) of the window
ClassificationTransform_feature(self, key, column) ==
    IF ~self.factors.some THEN [k \in 1..Len(column) |-> IntVal(column[k])]
    ELSE MinMaxScale([k \in 1..Len(column) |-> IntVal(column[k])],
                     FactorGet(self.factors.v, key, "min", IntVal(SeqMin(column))),
                     FactorGet(self.factors.v, key, "max", IntVal(SeqMax(column))))

\* lines 168-174: a target value; the defaults of a target column without factor are 0, 1
ClassificationTransform_target(self, y) ==
    IF ~self.factors.some THEN IntVal(y)
    ELSE MinMaxScale(<<IntVal(y)>>,
                     FactorGet(self.factors.v, self.y_key, "min", Zero),
                     FactorGet(self.factors.v, self.y_key, "max", IntVal(1)))[1]

\* ClassificationTransform.__call__: data.iloc[-1] and data.iloc[-2] raise IndexError on a
\* frame of fewer than two rows
ClassificationTransform_call(self, data) ==
    IF Len(data.rows) < 2
    THEN [status |-> "IndexError", out |-> NoOutput]
    ELSE [status |-> "ok",
          out |-> [features |->
                      [c \in 1..Len(self.feature_keys) |->
                          ClassificationTransform_feature(self, self.feature_keys[c],
                              [k \in 1..(Len(data.rows) - 1) |->
                                  data.rows[k][self.feature_keys[c]]])],
                   y |-> ClassificationTransform_target(self,
                             data.rows[Len(data.rows)][self.y_key]),
                   y_old |-> ClassificationTransform_target(self,
                                 data.rows[Len(data.rows) - 1][self.y_key]),
                   returns |-> ClassificationTransform_returns(
                                 ClassificationTransform_target(self,
                                     data.rows[Len(data.rows)][self.y_key]),
                                 ClassificationTransform_target(self,
                                     data.rows[Len(data.rows) - 1][self.y_key])),
                   timestamp |-> data.rows[Len(data.rows)].Timestamp]]

\* BaseModule.set_normalization_coeffs: factors.get(self.y_key) of a missing column is
\* None, and None.get raises AttributeError
BaseModule_set_normalization_coeffs(self, factors) ==
    IF ~factors.some \/ self.y_key \notin DOMAIN factors.v
    THEN [status |-> "AttributeError", self |-> self]
    ELSE [status |-> "ok",
          self |-> [self EXCEPT !.normalization_coeffs =
                       [set |-> TRUE,
                        scale |-> RSub(factors.v[self.y_key].max, factors.v[self.y_key].min),
                        shift |-> factors.v[self.y_key].min]]]

-----------------------------------------------------------------------------
(* Specification of the normalization: a ClassificationTransform built with  *)
(* or without factors and a window ds it is called on; a BaseModule that is  *)
(* given the factors of the transform and denormalizes the sample's target.  *)

\* {min, max} pairs with max >= min
FactorPairs ==
    {[min |-> IntVal(p[1]), max |-> IntVal(p[2])] : p \in {q \in Prices \X Prices : q[1] <= q[2]}}

NormalizedKeys == <<"Open", "Close">>

\* factors for both feature columns, or for the target column alone
FactorDicts ==
    {[key \in {"Open", "Close"} |-> IF key = "Open" THEN o ELSE c] :
        o \in FactorPairs, c \in FactorPairs}
    \cup {[key \in {"Close"} |-> c] : c \in FactorPairs}

NormalizationWindows ==
    {Frame(Columns, SeriesOf(closes)) :
        closes \in UNION {[1..n -> Prices] : n \in 0..(MaxWindow + 1)}}

NInit ==
    /\ \E factors \in {None} \cup {Some(f) : f \in FactorDicts} :
          tf = ClassificationTransform__init__(factors, "Close", NormalizedKeys, Zero)
    /\ ds \in NormalizationWindows
    /\ rin = [y_key |-> "Close", normalization_coeffs |-> NoCoeffs]
    /\ res = Idle
    /\ rout = Idle /\ conv = Idle /\ cres = Idle

\* the transform is called on the window ds
ClassificationTransformCall ==
    /\ res' = [op |-> "call", window |-> ds,
               status |-> ClassificationTransform_call(tf, ds).status,
               out |-> ClassificationTransform_call(tf, ds).out]
    /\ UNCHANGED <<ds, tf, rin, rout, conv, cres>>

\* the module is given the factors the transform was built with
SetNormalizationCoeffs ==
    /\ rin' = BaseModule_set_normalization_coeffs(rin, tf.factors).self
    /\ res' = [op |-> "set_normalization_coeffs",
               status |-> BaseModule_set_normalization_coeffs(rin, tf.factors).status]
    /\ UNCHANGED <<ds, tf, rout, conv, cres>>

\* denormalize of the target of the sample the transform returned last
Denormalize ==
    /\ res.op = "call"
    /\ res.status = "ok"
    /\ res' = [op |-> "denormalize", window |-> res.window, y |-> res.out.y,
               value |-> BaseModule_denormalize(res.out.y, rin.normalization_coeffs)]
    /\ UNCHANGED <<ds, tf, rin, rout, conv, cres>>

NNext == ClassificationTransformCall \/ SetNormalizationCoeffs \/ Denormalize

SpecNormalization == NInit /\ [][NNext]_vars

-----------------------------------------------------------------------------
(* The training script: the command line, the training configuration file    *)
(* and the model configuration are its inputs (rin); res is the state of the *)
(* script, step by step, up to the first validation of trainer.fit.          *)

TaskChoices == {"regression", "classification"}

\* how DataTransform.__call__ reads a task type: classification outputs only for
\* 'classification'
DataTransform_mode(task_type) ==
    IF task_type = "classification" THEN "classification" ELSE "regression"

\* how BaseModule.forward and the steps read a task type: regression only for 'regression'
BaseModule_mode(task_type) ==
    IF task_type = "regression" THEN "regression" ELSE "classification"

\* load_model: the task type is put into the model parameters only when it is
\* 'classification'; otherwise the module gets the parameter of the model configuration,
\* or the default of CryptoMambaModule
load_model(params_task_type, task_type) ==
    IF task_type = "classification" THEN task_type
    ELSE IF params_task_type.some THEN params_task_type.v
    ELSE "classification"

\* the metrics validation_step logs with self.log in each mode
BaseModule_validation_step_logs(task_type) ==
    IF task_type = "regression"
    THEN {"val/mse", "val/rmse", "val/mape", "val/mae"}
    ELSE {"val/loss", "val/accuracy", "val/precision", "val/recall", "val/f1",
          "val/class_0_ratio", "val/class_1_ratio", "val/class_2_ratio"}

\* lines 248-281: the callbacks the script hands to the trainer, each with its monitor
Callbacks(save_checkpoints, task_type) ==
    (IF save_checkpoints
     THEN {[callback |-> "ModelCheckpoint",
            monitor |-> IF task_type = "classification" THEN "val/accuracy" ELSE "val/rmse"]}
     ELSE {})
    \cup {[callback |-> "EarlyStopping", monitor |-> "val/loss"]}

\* --task_type values on the command line (None: not given), task_type values of the
\* training configuration, task_type of the model parameters, --logger_type,
\* --save_checkpoints
SetupInputs ==
    [argv_task_type : {None} \cup {Some(t) : t \in TaskChoices \cup {"ranking"}},
     config_task_type : {None} \cup {Some(t) : t \in TaskChoices \cup {"ranking"}},
     params_task_type : {None} \cup {Some(t) : t \in TaskChoices},
     logger_type : {"tb", "wandb", "csv"},
     save_checkpoints : BOOLEAN]

SInit ==
    /\ rin \in SetupInputs
    /\ res = [pc |-> "get_args", status |-> "running", task_type |-> None,
              transform |-> None, model |-> None, data_module |-> None,
              callbacks |-> {}, logged |-> {}]
    /\ ds = Idle /\ tf = Idle /\ rout = Idle /\ conv = Idle /\ cres = Idle

\* get_args: argparse rejects a --task_type outside the choices and exits
get_args ==
    /\ res.pc = "get_args"
    /\ res' = IF rin.argv_task_type.some /\ rin.argv_task_type.v \notin TaskChoices
              THEN [res EXCEPT !.pc = "exit", !.status = "SystemExit"]
              ELSE [res EXCEPT !.pc = "task_type",
                               !.task_type = IF rin.argv_task_type.some
                                             THEN rin.argv_task_type
                                             ELSE Some("regression")]
    /\ UNCHANGED <<ds, tf, rin, rout, conv, cres>>

\* lines 179-181: the task type of the configuration file replaces the argument
ResolveTaskType ==
    /\ res.pc = "task_type"
    /\ res' = [res EXCEPT !.pc = "transforms",
                          !.task_type = IF rin.config_task_type.some
                                        THEN rin.config_task_type
                                        ELSE res.task_type]
    /\ UNCHANGED <<ds, tf, rin, rout, conv, cres>>

\* lines 196-213: the three transforms, built alike
CreateTransforms ==
    /\ res.pc = "transforms"
    /\ res' = [res EXCEPT !.pc = "load_model",
                          !.transform = Some(DataTransform__init__(FALSE, res.task_type.v,
                                                                   Zero, "Close"))]
    /\ UNCHANGED <<ds, tf, rin, rout, conv, cres>>

\* lines 215-221
LoadModel ==
    /\ res.pc = "load_model"
    /\ res' = [res EXCEPT !.pc = "logger",
                          !.model = Some([task_type |->
                                             load_model(rin.params_task_type, res.task_type.v)])]
    /\ UNCHANGED <<ds, tf, rin, rout, conv, cres>>

\* lines 226-233: an unknown logger type raises ValueError
CreateLogger ==
    /\ res.pc = "logger"
    /\ res' = IF rin.logger_type \in {"tb", "wandb"}
              THEN [res EXCEPT !.pc = "data_module"]
              ELSE [res EXCEPT !.pc = "exit", !.status = "ValueError"]
    /\ UNCHANGED <<ds, tf, rin, rout, conv, cres>>

\* lines 235-246: the data module is handed the task type
CreateDataModule ==
    /\ res.pc = "data_module"
    /\ res' = [res EXCEPT !.pc = "callbacks",
                          !.data_module = Some([task_type |-> res.task_type.v])]
    /\ UNCHANGED <<ds, tf, rin, rout, conv, cres>>

\* lines 248-291: the callbacks are created and handed to the trainer
CreateCallbacks ==
    /\ res.pc = "callbacks"
    /\ res' = [res EXCEPT !.pc = "fit",
                          !.callbacks = Callbacks(rin.save_checkpoints, res.task_type.v)]
    /\ UNCHANGED <<ds, tf, rin, rout, conv, cres>>

\* line 293: trainer.fit runs validation_step of the model; the callbacks look their
\* monitors up among the metrics logged when the validation ends
Fit ==
    /\ res.pc = "fit"
    /\ res' = [res EXCEPT !.pc = "validation_end",
                          !.logged = BaseModule_validation_step_logs(res.model.v.task_type)]
    /\ UNCHANGED <<ds, tf, rin, rout, conv, cres>>

SNext ==
    \/ get_args \/ ResolveTaskType \/ CreateTransforms \/ LoadModel \/ CreateLogger
    \/ CreateDataModule \/ CreateCallbacks \/ Fit

SpecSetup == SInit /\ [][SNext]_vars

-----------------------------------------------------------------------------
(* Properties of the dataset (checked under Spec) *)

Size == IF Len(ds.data.rows) - ds.window_size - 1 > 0
        THEN Len(ds.data.rows) - ds.window_size - 1
        ELSE 0

InRange(i) == 0 <= i /\ i < Size

\* the value a transform output holds for a column of a bar
Expected(key, bar) ==
    IF key = "Volume" THEN Num(bar[key], VolumeScale) ELSE IntVal(bar[key])

\* C1: for every series of length L >= 0 and every window_size w >= 0, __len__ returns
\* max(0, L - w - 1): L - w - 1 when that is positive, 0 otherwise, never a negative number.
C1_LenIsClampedSize ==
    res.op = "len" =>
        LET d == Len(ds.data.rows) - ds.window_size - 1
        IN  /\ res.value >= 0
            /\ (d >= 0 => res.value = d)
            /\ (d < 0 => res.value = 0)

C1_Witness ==
    /\ res.op = "len"
    /\ Len(ds.data.rows) < ds.window_size + 1
    /\ res.value = 0

\* the sample of __getitem__(res.i) is fully populated from the bars res.i..res.i+window_size
WindowAndSampleAt(i) ==
    LET w == ds.window_size
        keys == tf.keys
        channels == SelectSeq(keys, LAMBDA key : key # "Timestamp_orig")
    IN  /\ res.status = "ok"
        /\ Len(res.window.rows) = w + 1
        /\ \A k \in 1..(w + 1) : res.window.rows[k] = ds.data.rows[i + k]
        /\ Len(res.sample.features) = Len(channels)
        /\ \A c \in 1..Len(channels) :
              /\ Len(res.sample.features[c]) = w
              /\ \A k \in 1..w :
                    res.sample.features[c][k] = Expected(channels[c], ds.data.rows[i + k])
        /\ \A key \in Range(keys) :
              /\ res.sample.cur[key] = Expected(key, ds.data.rows[i + w + 1])
              /\ res.sample.old[key] = Expected(key, ds.data.rows[i + w])

\* C2 as claimed: for every window_size (0 included) with size > 0 and every index in
\* [0, size), __getitem__ builds the window of bars i..i+window_size and a fully populated
\* sample (features bars i..i+window_size-1, current bar i+window_size, previous bar
\* i+window_size-1).
C2_WindowEveryWindowSize ==
    (res.op = "getitem" /\ InRange(res.i)) => WindowAndSampleAt(res.i)

\* C2 amended: the same for every window_size >= 1.
C2_WindowPositiveWindowSize ==
    (res.op = "getitem" /\ ds.window_size >= 1 /\ InRange(res.i)) => WindowAndSampleAt(res.i)

C2_Witness ==
    /\ res.op = "getitem"
    /\ ds.window_size >= 1
    /\ Size >= 2
    /\ res.i = Size - 1
    /\ res.status = "ok"
    /\ res.sample.cur["Close"] = IntVal(ds.data.rows[Len(ds.data.rows) - 1].Close)

\* the three-way rule on finite values, by cross multiplication
RuleClass(r, t) ==
    IF r.n * t.d < -(t.n * r.d) THEN 0
    ELSE IF r.n * t.d <= t.n * r.d THEN 1
    ELSE 2

\* (current - previous) / previous, 0 when previous is 0
RuleReturn(cur, prev) == IF prev.n = 0 THEN Zero ELSE RDiv(RSub(cur, prev), prev)

\* C5: in classification mode, for every index in [0, size) (window_size >= 1) the sample
\* has returns = (current - previous) / previous of its own target values (0 when previous
\* is 0) and target_class = the discretization of these returns under the configured
\* threshold, whichever thresholds and target keys transform and dataset were built with.
C5_ReturnsAndClassOfOwnTarget ==
    (res.op = "getitem" /\ ds.task_type = "classification" /\ ds.window_size >= 1
        /\ InRange(res.i)) =>
        /\ res.status = "ok"
        /\ res.sample.has_returns
        /\ res.sample.returns =
              RuleReturn(res.sample.cur[ds.y_key], res.sample.old[ds.y_key])
        /\ res.sample.target_class = RuleClass(res.sample.returns, ds.threshold)
        /\ tf.task_type = "classification" =>
              /\ res.sample.returns =
                    RuleReturn(res.sample.cur[tf.y_key], res.sample.old[tf.y_key])
              /\ res.sample.target_class = RuleClass(res.sample.returns, tf.threshold)

\* C6: __getitem__(i) with i outside [0, size) fails with an error and returns no sample.
C6_OutOfRangeFails ==
    (res.op = "getitem" /\ ~InRange(res.i)) => res.status # "ok"

-----------------------------------------------------------------------------
(* Properties of the return and label functions (checked under SpecReturns) *)

LabelOps == {"DataTransform.tensor", "DataTransform.scalar", "CMambaDataset.tensor",
             "CMambaDataset.scalar", "BaseModule.labels"}
ReturnOps == {"DataTransform.returns", "CMambaDataset.returns",
              "ClassificationTransform.returns"}
StepOps == {"training_step", "validation_step", "test_step"}

\* C3: every implementation of the discretization returns, for a real returns value r and a
\* threshold t >= 0, class 0 iff r < -t, class 1 iff -t <= r <= t, class 2 iff r > t; so
\* r = t and r = -t are class 1 and with t = 0 class 1 is exactly r = 0.
C3_ThreeWayRule ==
    rout.op \in LabelOps =>
        LET r == rin.r
            t == rin.t
        IN  /\ rout.target \in {0, 1, 2}
            /\ rout.target = 0 <=> r.n * t.d < -(t.n * r.d)
            /\ rout.target = 1 <=> (-(t.n * r.d) <= r.n * t.d /\ r.n * t.d <= t.n * r.d)
            /\ rout.target = 2 <=> r.n * t.d > t.n * r.d
            /\ t.n = 0 => (rout.target = 1 <=> r.n = 0)

C3_Witness ==
    /\ rout.op = "CMambaDataset.scalar"
    /\ rin.t.n > 0
    /\ rin.r = rin.t
    /\ rout.target = 1

\* C4: wherever a return is computed from a current and a previous target value, a previous
\* value of 0 yields a return of exactly 0, not an error or a non-finite value.
C4_ZeroPreviousGivesZero ==
    /\ (rout.op \in ReturnOps /\ rin.prev = 0) => rout.returns = Zero
    /\ (rout.op \in StepOps /\ rin.batch = "old"
            /\ IsZero(BaseModule_denormalize(IntVal(rin.prev), rin.coeffs)))
        => rout.returns = Zero

-----------------------------------------------------------------------------
(* Properties of the transform (checked under SpecTransform) *)

\* the key list __init__ set for this transform
ConstructedKeys == BaseKeys("Volume" \in Range(tf.keys))

\* C7: a call changes no state of the transform: after any sequence of calls, on windows
\* with or without 'Timestamp_orig', the key list is the one set at construction, and the
\* result of a call on a window is the result a freshly constructed transform gives.
C7_CallKeepsTransformState ==
    /\ tf.keys = ConstructedKeys
    /\ res.op = "call" =>
          LET fresh == DataTransform_call([tf EXCEPT !.keys = ConstructedKeys], res.window)
          IN  res.status = fresh.status /\ res.out = fresh.out

-----------------------------------------------------------------------------
(* Properties of the converter (checked under SpecConverter) *)

\* positions of the CSV records that fall in the bucket of the last merge_data call
Bucket ==
    {k \in 1..Len(conv.csv) :
        conv.csv[k].Timestamp >= cres.start /\ conv.csv[k].Timestamp < cres.start + cres.jump}

RECURSIVE VolumeOf(_)
VolumeOf(S) ==
    IF S = {} THEN 0
    ELSE LET k == CHOOSE x \in S : TRUE
         IN  conv.csv[k].Volume + VolumeOf(S \ {k})

\* C8: for every non-empty bucket merge_data returns open = the first record's open,
\* close = the last record's close, high = the maximum of the highs, low = the minimum of
\* the lows and volume = the sum of the volumes, each record counted once.
C8_MergeAggregates ==
    (cres.op = "merge" /\ Bucket # {}) =>
        LET first == CHOOSE k \in Bucket : \A j \in Bucket : k <= j
            last == CHOOSE k \in Bucket : \A j \in Bucket : k >= j
        IN  /\ ~cres.out.none
            /\ cres.out.open = conv.csv[first].Open
            /\ cres.out.close = conv.csv[last].Close
            /\ \E k \in Bucket : cres.out.high = conv.csv[k].High
            /\ \A k \in Bucket : cres.out.high >= conv.csv[k].High
            /\ \E k \in Bucket : cres.out.low = conv.csv[k].Low
            /\ \A k \in Bucket : cres.out.low <= conv.csv[k].Low
            /\ cres.out.vol = VolumeOf(Bucket)

C8_Witness ==
    /\ cres.op = "merge"
    /\ Cardinality(Bucket) >= 3
    /\ \E j, k \in Bucket :
          /\ j < k
          /\ conv.csv[j].High < conv.csv[k].High
          /\ cres.out.high = conv.csv[k].High
          /\ cres.out.low = conv.csv[k].Low
          /\ cres.out.open = conv.csv[j].Open

\* C9: process_data outputs a bar with timestamp t if and only if t = start + k * width
\* with start <= t < end and some input record has its timestamp in [t, t + width), for
\* every bucket of the span up to end; output timestamps are strictly increasing.
C9_BarPerNonEmptyBucket ==
    (cres.op = "process" /\ cres.status = "ok") =>
        LET width == conv.self.jumps
            starts == {t \in {cres.start + k * width : k \in 0..((cres.stop - cres.start) \div width)} :
                          t < cres.stop}
            stamps == {cres.df[k].Timestamp : k \in 1..Len(cres.df)}
        IN  /\ stamps \subseteq starts
            /\ \A t \in starts :
                  t \in stamps <=>
                      \E k \in 1..Len(conv.csv) :
                          conv.csv[k].Timestamp >= t /\ conv.csv[k].Timestamp < t + width
            /\ \A k \in 1..(Len(cres.df) - 1) : cres.df[k].Timestamp < cres.df[k + 1].Timestamp

Stamps(rows) == {rows[k].Timestamp : k \in 1..Len(rows)}
Ascending(rows) == \A k \in 1..(Len(rows) - 1) : rows[k].Timestamp < rows[k + 1].Timestamp

\* C10: with train_ratio + test_ratio <= 1 the ratio branch of split returns train, val and
\* test that are pairwise disjoint row subsets in ascending order with
\* |train| = int(train_ratio * n), |test| = int(test_ratio * n), |train| + |val| + |test| = n.
C10_RatioSplitPartitions ==
    (cres.op = "split" /\ conv.self.config.train_ratio.some) =>
        LET n == Len(cres.data)
            o == cres.out
        IN  /\ cres.status = "ok"
            /\ Stamps(o.train) \cup Stamps(o.val) \cup Stamps(o.test) \subseteq Stamps(cres.data)
            /\ Stamps(o.train) \cap Stamps(o.val) = {}
            /\ Stamps(o.train) \cap Stamps(o.test) = {}
            /\ Stamps(o.val) \cap Stamps(o.test) = {}
            /\ Ascending(o.train) /\ Ascending(o.val) /\ Ascending(o.test)
            /\ Len(o.train) = (conv.self.config.train_ratio.v.n * n) \div conv.self.config.train_ratio.v.d
            /\ Len(o.test) = (conv.self.config.test_ratio.v.n * n) \div conv.self.config.test_ratio.v.d
            /\ Len(o.train) + Len(o.val) + Len(o.test) = n

\* the bars of rows inside the configured interval of a split, in their order
InInterval(rows, key) ==
    Between(rows, generate_timestamp(conv.self.config.intervals.v[key][1]),
            generate_timestamp(conv.self.config.intervals.v[key][2]))

SplitKeys == {"train", "val", "test"}

\* what C11 says of the splits of the last call of split
IntervalSplitExclusive ==
    LET o == cres.out
    IN  /\ cres.status = "ok"
        /\ \A key \in SplitKeys : o[key] = InInterval(cres.data, key)
        /\ \A a, b \in SplitKeys : a # b => Stamps(o[a]) \cap Stamps(o[b]) = {}
        /\ \A key \in SplitKeys : \A t \in Stamps(o[key]) :
              \E k \in SplitKeys :
                  /\ t >= generate_timestamp(conv.self.config.intervals.v[k][1])
                  /\ t < generate_timestamp(conv.self.config.intervals.v[k][2])

\* no day lies in two of the configured intervals
DisjointIntervals ==
    \A a, b \in SplitKeys :
        a # b => \/ conv.self.config.intervals.v[a][2] <= conv.self.config.intervals.v[b][1]
                 \/ conv.self.config.intervals.v[b][2] <= conv.self.config.intervals.v[a][1]

\* C11 as claimed: the interval branch of split returns, for each of train / val / test,
\* exactly the bars with start <= t < stop of that split's configured interval, in their
\* original order; the timestamps of the three returned splits are mutually exclusive and
\* every returned bar lies in the union of the configured intervals, whatever the
\* configured intervals are.
C11_IntervalSplitExclusive ==
    (cres.op = "split" /\ cres.branch = "interval" /\ conv.self.config.intervals.some) =>
        IntervalSplitExclusive

\* C11 amended: the same for configured intervals that are pairwise disjoint.
C11_DisjointIntervalSplitExclusive ==
    (cres.op = "split" /\ cres.branch = "interval" /\ conv.self.config.intervals.some
        /\ DisjointIntervals) =>
        IntervalSplitExclusive

\* a bar at the very boundary of train and val goes to val alone
C11_Witness ==
    /\ cres.op = "split" /\ cres.branch = "interval" /\ cres.status = "ok"
    /\ conv.self.config.intervals.some /\ DisjointIntervals
    /\ Len(cres.out.train) >= 1
    /\ Len(cres.out.val) >= 1
    /\ cres.out.val[1].Timestamp = generate_timestamp(conv.self.config.intervals.v["train"][2])

\* C12: split takes the interval strategy whenever interval bounds are configured, also
\* when ratios are configured as well, and the ratio strategy only without interval bounds.
C12_IntervalsTakePrecedence ==
    cres.op = "split" =>
        /\ conv.self.config.intervals.some => cres.branch = "interval"
        /\ cres.branch = "ratio" => ~conv.self.config.intervals.some

\* low <= open <= high, low <= close <= high and volume >= 0
BarOk(b) ==
    /\ b.Low <= b.Open /\ b.Open <= b.High
    /\ b.Low <= b.Close /\ b.Close <= b.High
    /\ b.Volume >= 0

AllOk(rows) == \A k \in 1..Len(rows) : BarOk(rows[k])

\* C19: if every input record has low <= open <= high, low <= close <= high and
\* volume >= 0, so has every bar of merge_data over a non-empty bucket, every bar of
\* process_data and every bar of every split.
C19_BarsKeepOhlcOrder ==
    AllOk(conv.csv) =>
        /\ (cres.op = "merge" /\ ~cres.out.none) =>
              BarOk([Low |-> cres.out.low, Open |-> cres.out.open, High |-> cres.out.high,
                     Close |-> cres.out.close, Volume |-> cres.out.vol])
        /\ cres.op = "process" => AllOk(cres.df)
        /\ cres.op = "split" =>
              AllOk(cres.out.train) /\ AllOk(cres.out.val) /\ AllOk(cres.out.test)

\* a bucket whose first open lies below the low of its last record and whose last close
\* lies below the high of its first record
C19_Witness ==
    /\ cres.op = "merge"
    /\ Cardinality(Bucket) >= 2
    /\ LET first == CHOOSE k \in Bucket : \A j \in Bucket : k <= j
           last == CHOOSE k \in Bucket : \A j \in Bucket : k >= j
       IN  /\ cres.out.open < conv.csv[last].Low
           /\ cres.out.close < conv.csv[first].High
           /\ cres.out.low = cres.out.open
           /\ cres.out.vol > 0

-----------------------------------------------------------------------------
(* Further properties of the transform (checked under SpecTransform) *)

\* C20: for every window of window_size + 1 bars (window_size >= 1) and after any number
\* of earlier calls, __call__ returns a feature tensor with one channel per configured
\* feature column and context length window_size; a 'Timestamp_orig' column of the window
\* is recorded as 'Timestamp_orig' and 'Timestamp_orig_old' and adds no channel.
C20_ChannelPerFeatureColumn ==
    (res.op = "call" /\ Len(res.window.rows) >= 2) =>
        /\ res.status = "ok"
        /\ Len(res.out.features) = Len(ConstructedKeys)
        /\ \A c \in 1..Len(res.out.features) :
              Len(res.out.features[c]) = Len(res.window.rows) - 1
        /\ "Timestamp_orig" \in res.window.cols =>
              /\ "Timestamp_orig" \in DOMAIN res.out.cur
              /\ "Timestamp_orig" \in DOMAIN res.out.old

-----------------------------------------------------------------------------
(* Properties of the split cache (checked under SpecCache and SpecFactors) *)

NoStrategy == ~conv.self.config.train_ratio.some /\ ~conv.self.config.intervals.some

\* C13: with neither ratios nor interval bounds configured, get_data ends in an error,
\* writes nothing (no folder, no train / val / test file, no saved configuration) and
\* returns no splits.
C13_NoStrategyIsAnError ==
    (cres.op = "get_data" /\ NoStrategy) =>
        /\ cres.status # "ok"
        /\ conv.fs = cres.fs_before
        /\ cres.out = NoSplit

\* C17: two runs whose resolved (start_date, end_date, bucket width) differ never read or
\* write the same cache folder, dates resolved from the input included.
C17_CacheKeyedByResolvedTriple ==
    \A a, b \in conv.log : a.triple # b.triple => a.folder # b.folder

\* the factors of a column are the least and the greatest value of the rows
FactorsOver(rows, col) ==
    /\ \A k \in 1..Len(rows) :
          /\ Le(cres.factors[col].min, IntVal(rows[k][col]))
          /\ Ge(cres.factors[col].max, IntVal(rows[k][col]))
    /\ Len(rows) > 0 =>
          /\ \E k \in 1..Len(rows) : cres.factors[col].min = IntVal(rows[k][col])
          /\ \E k \in 1..Len(rows) : cres.factors[col].max = IntVal(rows[k][col])

\* C14 as claimed: whatever the validation and test splits hold, the factors of every
\* column are the minimum and the maximum of the column over the training rows, with
\* max >= min, for every training split (the empty one included).
C14_FactorsOfEveryTrainSplit ==
    (cres.op = "factors" /\ cres.status = "ok") =>
        \A col \in FactorColumns :
            /\ FactorsOver(cres.out.train, col)
            /\ Ge(cres.factors[col].max, cres.factors[col].min)

\* C14 amended: the same for every training split with at least one row.
C14_FactorsOfNonEmptyTrainSplit ==
    (cres.op = "factors" /\ cres.status = "ok" /\ Len(cres.out.train) > 0) =>
        \A col \in FactorColumns :
            /\ FactorsOver(cres.out.train, col)
            /\ Ge(cres.factors[col].max, cres.factors[col].min)

\* a validation row lies outside the range of the training rows
C14_Witness ==
    /\ cres.op = "factors"
    /\ cres.status = "ok"
    /\ Len(cres.out.train) >= 2
    /\ \E k \in 1..Len(cres.out.val) :
          /\ Gt(IntVal(cres.out.val[k].High), cres.factors["High"].max)
          /\ Lt(IntVal(cres.out.val[k].Low), cres.factors["Low"].min)

-----------------------------------------------------------------------------
(* Properties of the normalization (checked under SpecNormalization) *)

\* v scaled by the supplied factor of a column: (v - min) / (max - min) when max > min,
\* v itself when max = min or when no factor of the column is supplied
Scaled(key, v) ==
    IF tf.factors.some /\ key \in DOMAIN tf.factors.v
       /\ Gt(tf.factors.v[key].max, tf.factors.v[key].min)
    THEN RDiv(RSub(IntVal(v), tf.factors.v[key].min),
              RSub(tf.factors.v[key].max, tf.factors.v[key].min))
    ELSE IntVal(v)

\* C15: every feature value and the current / previous target value v of a column is
\* mapped to (v - min) / (max - min) of the supplied factors of that column when
\* max > min, left unchanged when max = min and when no factors are supplied; only
\* supplied factors are used, never statistics of the window.
C15_SuppliedFactorsOnly ==
    (res.op = "call" /\ Len(res.window.rows) >= 2) =>
        LET n == Len(res.window.rows)
        IN  /\ res.status = "ok"
            /\ \A c \in 1..Len(tf.feature_keys) : \A k \in 1..(n - 1) :
                  res.out.features[c][k] =
                      Scaled(tf.feature_keys[c], res.window.rows[k][tf.feature_keys[c]])
            /\ res.out.y = Scaled(tf.y_key, res.window.rows[n][tf.y_key])
            /\ res.out.y_old = Scaled(tf.y_key, res.window.rows[n - 1][tf.y_key])

\* the target value of the window lies between the factors of the target column
TargetWithinFactors ==
    /\ tf.factors.some
    /\ tf.y_key \in DOMAIN tf.factors.v
    /\ Le(tf.factors.v[tf.y_key].min, IntVal(res.window.rows[Len(res.window.rows)][tf.y_key]))
    /\ Le(IntVal(res.window.rows[Len(res.window.rows)][tf.y_key]), tf.factors.v[tf.y_key].max)

\* C16: for factors {min, max} with max >= min (max = min included) and a target value v
\* of the data they were computed from (so min <= v <= max), normalizing v by the
\* transform and denormalizing by a module given the same factors returns v.
C16_DenormalizeRestoresTarget ==
    (res.op = "denormalize" /\ rin.normalization_coeffs.set /\ TargetWithinFactors) =>
        res.value = IntVal(res.window.rows[Len(res.window.rows)][tf.y_key])

\* a target strictly inside (min, max), normalized to a fraction and restored
C16_Witness ==
    /\ res.op = "denormalize"
    /\ rin.normalization_coeffs.set
    /\ TargetWithinFactors
    /\ res.y.d > 1
    /\ res.value = IntVal(res.window.rows[Len(res.window.rows)][tf.y_key])

-----------------------------------------------------------------------------
(* Properties of the training script (checked under SpecSetup) *)

\* C18: a task mode other than 'regression' and 'classification', from the command line
\* or from the configuration file, ends the script with an error before a transform, a
\* model or a data module is constructed; and transform and model never read the task
\* mode differently.
C18_UnknownTaskModeRejected ==
    /\ (res.transform.some \/ res.model.some \/ res.data_module.some) =>
          res.task_type.v \in TaskChoices
    /\ (res.transform.some /\ res.model.some) =>
          DataTransform_mode(res.transform.v.task_type) = BaseModule_mode(res.model.v.task_type)

-----------------------------------------------------------------------------
(* Properties of the precomputed returns (checked under Spec)               *)

\* returns[i] is the return between the last two target values of the window of index i
ReturnsOfWindowTargets ==
    LET w == ds.window_size
        rows == ds.data.rows
        y == ds.y_key
    IN  /\ Len(ds.returns) = Size
        /\ \A i \in 0..(Size - 1) :
              /\ i + w >= 1
              /\ ds.returns[i + 1] = RuleReturn(IntVal(rows[i + w + 1][y]), IntVal(rows[i + w][y]))
        /\ (res.op = "getitem" /\ InRange(res.i)) =>
              LET n == Len(res.window.rows)
              IN  /\ n >= 2
                  /\ ds.returns[res.i + 1] =
                        RuleReturn(IntVal(res.window.rows[n][y]),
                                   IntVal(res.window.rows[n - 1][y]))

\* C21 as claimed: in classification mode, for every window_size (0 included) the returns
\* list built at construction has exactly size entries and returns[i] is the return
\* (current - previous) / previous (0 when previous is 0) of the last two target values of
\* the window __getitem__(i) builds, the bars i+window_size and i+window_size-1.
C21_ReturnsEveryWindowSize ==
    ds.task_type = "classification" => ReturnsOfWindowTargets

\* C21 amended: the same for every window_size >= 1.
C21_ReturnsPositiveWindowSize ==
    (ds.task_type = "classification" /\ ds.window_size >= 1) => ReturnsOfWindowTargets

C21_Witness ==
    /\ ds.task_type = "classification"
    /\ ds.window_size >= 1
    /\ Size >= 2
    /\ res.op = "getitem"
    /\ res.i = Size - 1
    /\ ~IsZero(ds.returns[Size])
    /\ ds.data.rows[ds.window_size][ds.y_key] = 0
    /\ IsZero(ds.returns[1])

-----------------------------------------------------------------------------
(* Properties of repeated get_data calls (checked under SpecCache)          *)

\* the rows a persisted split file holds, in file order
PersistedRows(file) == [k \in 1..Len(file) |-> file[k][2]]

\* the folder of this converter holds splits written under its own configuration
CachedForConfiguration ==
    /\ conv.self.folder_name \in DOMAIN conv.fs
    /\ conv.fs[conv.self.folder_name].config = conv.self.config

\* a get_data call on a cached configuration returns the persisted rows, leaves the folders
\* and the converter as they are, and returns what the call before it returned
LaterCallReturnsPersisted ==
    (cres'.op = "get_data" /\ CachedForConfiguration) =>
        LET files == conv.fs[conv.self.folder_name]
        IN  /\ cres'.status = "ok"
            /\ cres'.out = [train |-> PersistedRows(files.train),
                            val |-> PersistedRows(files.val),
                            test |-> PersistedRows(files.test)]
            /\ conv'.fs = conv.fs
            /\ conv'.self = conv.self
            /\ (cres.op \in {"get_data", "factors"} /\ cres.status = "ok") =>
                  cres'.out = cres.out

\* C22: once a get_data call has completed successfully, every later get_data call with the
\* same configuration returns the persisted train, val and test splits, the same rows in
\* the same order as the first call returned, and neither aggregates nor splits again.
C22_LaterCallsReturnPersistedSplits == [][LaterCallReturnsPersisted]_vars

\* a second run found the splits of the first and returned them, although its own input
\* file would have produced other splits
C22_Witness ==
    /\ cres.op = "get_data"
    /\ cres.status = "ok"
    /\ conv.run = 2
    /\ conv.self.folder_name \in DOMAIN cres.fs_before
    /\ cres.fs_before[conv.self.folder_name].config = conv.self.config
    /\ Len(cres.out.train) > 0
    /\ DataConverter_get_data(conv.self, conv.csv, NoFiles, {}, <<>>).out # cres.out

-----------------------------------------------------------------------------
(* Properties of concurrent get_data calls (checked under SpecConcurrent)   *)

\* what one get_data call alone returns on an empty cache
AloneOnEmptyCache == DataConverter_get_data(conv.self, conv.csv, NoFiles, {}, <<>>)

\* C23: when two processes run get_data concurrently for one configuration on an empty
\* cache, under every interleaving no process takes the cache-hit path while val.csv or
\* test.csv is absent, none fails (in particular not because the other created the cache
\* directory first), and each process that returns holds the complete train, val and test
\* splits.
C23_ConcurrentCallsComplete ==
    AloneOnEmptyCache.status = "ok" =>
        \A p \in Procs :
            /\ cres[p].pc # "failed"
            /\ cres[p].pc \in {"read_train", "read_val", "read_test"} =>
                  conv.folder.val.some /\ conv.folder.test.some
            /\ cres[p].pc = "done" =>
                  [train |-> cres[p].train, val |-> cres[p].val, test |-> cres[p].test]
                      = AloneOnEmptyCache.out

-----------------------------------------------------------------------------
(* Properties of the callbacks (checked under SpecSetup)                    *)

\* script, transform and model agree on one of the two task modes
InTaskMode(mode) ==
    /\ res.task_type.v = mode
    /\ res.model.some /\ res.model.v.task_type = mode

\* C24: in regression mode and in classification mode, every metric a callback of the
\* training script monitors (early stopping: 'val/loss'; the checkpoint callback of the
\* mode) is among the metrics validation_step logs in that mode.
C24_MonitorsAreLogged ==
    \A mode \in TaskChoices :
        (res.pc = "validation_end" /\ InTaskMode(mode)) =>
            \A c \in res.callbacks : c.monitor \in res.logged
====
